---- MODULE Spec2Model ----
(***************************************************************************)
(* Model of the compression middleware (src/index.js): one request /      *)
(* response exchange, the proxied res.write / res.end / res.on / res.flush,*)
(* the onHeaders callback that decides between pass-through and a zlib     *)
(* stream, and the relay between the zlib stream and the original          *)
(* transport.                                                              *)
(***************************************************************************)
EXTENDS Integers, Sequences, FiniteSets, TLC

(***************************************************************************)
(* Bounds of the model.                                                    *)
(***************************************************************************)
MaxThreshold == 2   \* thresholds 0..MaxThreshold are configured
MaxChunk == 2       \* byte length of a chunk / value of Content-Length
MaxCalls == 2       \* write/end calls made by the application
MaxSubs == 2        \* res.on subscriptions made by the application
MaxQ == 2           \* q-values are k/MaxQ, k in 0..MaxQ
MaxFlush == 1       \* res.flush calls made by the application

None == "undefined"   \* an absent string value
Undef == -1           \* an absent number (undefined, NaN in comparisons)
NaN == -2             \* the threshold when bytes.parse returns NaN
Nothing == -3         \* bytes.parse returns null
DefaultThreshold == 1024

(***************************************************************************)
(* Values.                                                                 *)
(***************************************************************************)
Encodings == {"gzip", "deflate", "identity"}
Methods == {"GET", "HEAD"}
ContentTypes == {None, "text/html", "image/png"}
ContentEncodings == {None, "identity", "br"}
ContentLengths == {Undef} \cup (0..MaxChunk)

\* a chunk handed to write/end: absent, a string or a Buffer of n bytes
NoChunk == [kind |-> "none", n |-> 0, seq |-> 0]
Chunk(kind, n, seq) == [kind |-> kind, n |-> n, seq |-> seq]

\* JavaScript truthiness of a chunk: undefined and '' are falsy, a Buffer
\* (even an empty one) is truthy
Truthy(chunk) ==
  \/ chunk.kind = "buffer"
  \/ chunk.kind = "string" /\ chunk.n > 0

\* new Buffer(chunk, encoding): the bytes of the chunk as a Buffer
NewBuffer(chunk) == [chunk EXCEPT !.kind = "buffer"]

\* what is recorded of a chunk given to a target: which chunk, in what form
Sent(chunk) == [kind |-> chunk.kind, seq |-> chunk.seq]

(***************************************************************************)
(* opts.threshold and bytes.parse (lines 45-49).  An option is absent, a    *)
(* number of bytes (-1 is the one negative number), a size string such as  *)
(* '1kb' or '-1', or a string that is not a size, such as 'abc'.           *)
(***************************************************************************)
NoOption == [kind |-> "undefined", n |-> 0, unit |-> "b"]
Bytes(n) == [kind |-> "number", n |-> n, unit |-> "b"]
Size(n, unit) == [kind |-> "size", n |-> n, unit |-> unit]
NotASize == [kind |-> "malformed", n |-> 0, unit |-> "b"]

Unit(unit) == IF unit = "kb" THEN 1024 ELSE 1

\* bytes.parse(val): what the bytes library may return.  A number is
\* returned as it is, a size string as its number of bytes, anything that
\* is not a number or a string as null; for a string that is not a size the
\* library returns NaN or null, by its version.  It never throws.
bytesParse(val) ==
  IF val.kind = "undefined" THEN {Nothing}
  ELSE IF val.kind = "number" THEN {val.n}
  ELSE IF val.kind = "size" THEN {val.n * Unit(val.unit)}
  ELSE {NaN, Nothing}

\* lines 45-49: the thresholds the middleware may be constructed with
thresholdOf(val) ==
  {IF t = Nothing THEN DefaultThreshold ELSE t : t \in bytesParse(val)}

(***************************************************************************)
(* accepts(req).encoding(provided): the negotiator library as called at    *)
(* src/index.js:151-156.  An Accept-Encoding header is a sequence of       *)
(* [enc, q] entries, q in 0..MaxQ standing for q/MaxQ.                     *)
(***************************************************************************)
RECURSIVE MinQ(_, _)
MinQ(acc, lowest) ==
  IF acc = <<>> THEN lowest
  ELSE MinQ(Tail(acc), IF Head(acc).q < lowest THEN Head(acc).q ELSE lowest)

\* identity is acceptable unless listed; when absent it is appended with the
\* lowest q of the header
parseAcceptEncoding(acc) ==
  IF \E i \in 1..Len(acc) : acc[i].enc = "identity"
    THEN acc
    ELSE Append(acc, [enc |-> "identity", q |-> MinQ(acc, MaxQ)])

\* priority of one encoding: q and position of its entry, q = 0 when absent
getEncodingPriority(enc, accepted) ==
  IF \E i \in 1..Len(accepted) : accepted[i].enc = enc
    THEN LET i == CHOOSE j \in 1..Len(accepted) :
                    /\ accepted[j].enc = enc
                    /\ \A k \in 1..Len(accepted) :
                         accepted[k].enc = enc =>
                           \/ accepted[k].q < accepted[j].q
                           \/ accepted[k].q = accepted[j].q /\ j <= k
         IN [q |-> accepted[i].q, i |-> i]
    ELSE [q |-> 0, i |-> 0]

\* the order of the priorities pa of provided[a] and pb of provided[b]:
\* higher q, then earlier in the header, then earlier in the provided list
Precedes(pa, pb, a, b) ==
  \/ pa.q > pb.q
  \/ pa.q = pb.q /\ pa.i < pb.i
  \/ pa.q = pb.q /\ pa.i = pb.i /\ a < b

\* a sorts before b
SortsBefore(a, b, provided, accepted) ==
  Precedes(getEncodingPriority(provided[a], accepted),
           getEncodingPriority(provided[b], accepted), a, b)

\* what encoding() returns when nothing is acceptable (false in the source)
NoEncoding == "false"

\* the provided encodings that are acceptable (q > 0)
acceptable(provided, accepted) ==
  {a \in 1..Len(provided) :
     getEncodingPriority(provided[a], accepted).q > 0}

\* the first of the acceptable encodings ok in the order of preference
preferred(provided, accepted, ok) ==
  IF ok = {} THEN NoEncoding
  ELSE provided[CHOOSE a \in ok :
         \A b \in ok \ {a} : SortsBefore(a, b, provided, accepted)]

\* the encodings of provided against the parsed header
preferredEncodings(provided, accepted) ==
  preferred(provided, accepted, acceptable(provided, accepted))

\* first of the preferred encodings, NoEncoding when none is acceptable
acceptEncoding(acc, provided) ==
  preferredEncodings(provided, parseAcceptEncoding(acc))

\* line 152 alone, without the preference of lines 154-157
negotiateFirst(acc) ==
  acceptEncoding(acc, <<"gzip", "deflate", "identity">>)

\* lines 154-157: deflate is not preferred when gzip is acceptable
preferGzip(acc, method) ==
  IF method = "deflate" /\ acceptEncoding(acc, <<"gzip">>) # NoEncoding
    THEN acceptEncoding(acc, <<"gzip", "identity">>)
    ELSE method

\* lines 150-157: the method the callback negotiates
negotiate(acc) ==
  preferGzip(acc, acceptEncoding(acc, <<"gzip", "deflate", "identity">>))

(***************************************************************************)
(* State of one exchange.                                                  *)
(***************************************************************************)
VARIABLES
  option,       \* opts.threshold as it was given to compression(options)
  threshold,    \* closure variable threshold, lines 45-49
  reqMethod,    \* req.method
  reqAccept,    \* the request's Accept-Encoding header
  headers,      \* response headers: Content-Type/-Length/-Encoding, Vary
  headerSent,   \* res._header
  fired,        \* on-headers: the listener has been called
  length,       \* closure variable length, line 52
  listeners,    \* closure variable listeners, line 53 (Null after nocompress)
  stream,       \* closure variable stream, line 57: NoStream, gzip or deflate
  resWrite,     \* what res.write is: "proxy" or "noop"
  resEnd,       \* what res.end is: "proxy" or "noop"
  resFlush,     \* what res.flush is: "noop" or "stream"
  resOn,        \* listeners attached to the response with the original on
  zOn,          \* listeners attached to the zlib stream
  zIn,          \* chunks the zlib stream was given, in order
  zOut,         \* number of 'data' events the zlib stream has emitted
  zEnded,       \* stream.end() was called
  zFinished,    \* the zlib stream has emitted 'end'
  zPaused,      \* stream.pause() in effect
  zNeedDrain,   \* stream.write() returned false, 'drain' is owed
  zFlushes,     \* stream.flush() calls
  wire,         \* calls of the original write / end, in order
  needDrain,    \* the original write returned false, 'drain' is owed
  calls,        \* invocations of each application listener
  decisions,    \* history: runs of the onHeaders callback
  method,       \* history: the method negotiated by the callback
  muts,         \* history: headers the callback has changed
  mutAfterBody, \* history: a header was changed after a body call on wire
  buffered,     \* history: subscriptions that were pushed on listeners
  tDrains,      \* history: 'drain' events of the response after the decision
  zDrains,      \* history: 'drain' events of the zlib stream
  streams,      \* history: zlib streams created (lines 167-169)
  appHeaders,   \* history: headers as the application set them
  bodyLen,      \* history: bytes the application has submitted
  how,          \* history: what committed the headers: "end" for res.end
                \* with a chunk that is not falsy, "emptyend" for res.end
                \* with no chunk or '', "other" for write or writeHead
  appEnd,       \* history: the first res.end call that was not a noop
  ncalls,       \* write/end calls made by the application
  nsubs,        \* res.on calls made by the application
  closed        \* req has emitted 'close'

vars == <<option, threshold, reqMethod, reqAccept, headers, headerSent, fired, length,
          listeners, stream, resWrite, resEnd, resFlush, resOn, zOn, zIn,
          zOut, zEnded, zFinished, zPaused, zNeedDrain, zFlushes, wire,
          needDrain, calls, decisions, method, muts, mutAfterBody, buffered,
          tDrains, zDrains, streams, appHeaders, bodyLen, how, appEnd, ncalls, nsubs,
          closed>>

Null == << <<"null", -1>> >>   \* listeners = null
NoStream == "none"
Unset == "unset"
Resume == 0     \* the listener of lines 194-196, the others are 1..MaxSubs

\* the mutable state as one record, so that a handler and the calls it
\* makes compose as functions
Cur ==
  [headers |-> headers, headerSent |-> headerSent, fired |-> fired,
   length |-> length, listeners |-> listeners, stream |-> stream,
   resWrite |-> resWrite, resEnd |-> resEnd, resFlush |-> resFlush,
   resOn |-> resOn, zOn |-> zOn, zIn |-> zIn, zOut |-> zOut,
   zEnded |-> zEnded, zFinished |-> zFinished, zPaused |-> zPaused,
   zNeedDrain |-> zNeedDrain, zFlushes |-> zFlushes, wire |-> wire,
   needDrain |-> needDrain, calls |-> calls, decisions |-> decisions,
   method |-> method, muts |-> muts, mutAfterBody |-> mutAfterBody,
   buffered |-> buffered, tDrains |-> tDrains, zDrains |-> zDrains,
   streams |-> streams]

Becomes(S) ==
  /\ headers' = S.headers /\ headerSent' = S.headerSent /\ fired' = S.fired
  /\ length' = S.length /\ listeners' = S.listeners /\ stream' = S.stream
  /\ resWrite' = S.resWrite /\ resEnd' = S.resEnd /\ resFlush' = S.resFlush
  /\ resOn' = S.resOn /\ zOn' = S.zOn /\ zIn' = S.zIn /\ zOut' = S.zOut
  /\ zEnded' = S.zEnded /\ zFinished' = S.zFinished /\ zPaused' = S.zPaused
  /\ zNeedDrain' = S.zNeedDrain /\ zFlushes' = S.zFlushes /\ wire' = S.wire
  /\ needDrain' = S.needDrain /\ calls' = S.calls
  /\ decisions' = S.decisions /\ method' = S.method /\ muts' = S.muts
  /\ mutAfterBody' = S.mutAfterBody /\ buffered' = S.buffered
  /\ tDrains' = S.tDrains /\ zDrains' = S.zDrains /\ streams' = S.streams

(***************************************************************************)
(* Helpers of src/index.js.                                                *)
(***************************************************************************)
\* the compressible() table, reduced to the two types of ContentTypes
compressible(type) == type = "text/html"

\* lines 240-249
shouldCompress(S) ==
  ~(S.headers.ct = None \/ ~compressible(S.headers.ct))

\* lines 218-226: undefined for a falsy chunk
chunkLength(chunk) == IF ~Truthy(chunk) THEN Undef ELSE chunk.n

\* the loop of line 209 started at i = 1
addListenersFromSecond(attached, ls) ==
  attached \o (IF ls = <<>> THEN <<>> ELSE Tail(ls))

\* lines 208-212: on.apply(target, listeners[i]) for each buffered listener
addListeners(attached, ls) == attached \o ls

\* a header change made by the callback
Mutate(S, name) ==
  [S EXCEPT !.muts = @ \cup {name},
            !.mutAfterBody = @ \/ S.wire # <<>>]

\* the header set to the field alone
varyOverwrite(S) ==
  IF S.headers.vary = {"Accept-Encoding"} THEN S
  ELSE [Mutate(S, "Vary") EXCEPT !.headers.vary = {"Accept-Encoding"}]

\* vary(res, 'Accept-Encoding'): the vary library appends the field unless
\* it is listed or the header is the wildcard *
vary(S) ==
  IF "*" \in S.headers.vary \/ "Accept-Encoding" \in S.headers.vary THEN S
  ELSE [Mutate(S, "Vary") EXCEPT !.headers.vary = @ \cup {"Accept-Encoding"}]

\* lines 114-118
nocompress(S) ==
  IF S.listeners = Null THEN S   \* listeners.length of null throws
  ELSE [S EXCEPT !.resOn = addListeners(@, S.listeners),
                 !.listeners = Null]

\* the comparison of line 131 with <= for <
belowThresholdInclusive(S) ==
  /\ threshold # NaN
  /\ \/ S.headers.cl # Undef /\ S.headers.cl <= threshold
     \/ S.length # Undef /\ S.length <= threshold

\* line 131: a comparison with undefined or NaN is false
belowThreshold(S) ==
  /\ threshold # NaN
  /\ \/ S.headers.cl # Undef /\ S.headers.cl < threshold
     \/ S.length # Undef /\ S.length < threshold

\* a test for the encodings of the middleware itself
alreadyEncodedOwn(S) == S.headers.ce \in {"gzip", "deflate"}

\* lines 136-139
alreadyEncoded(S) ==
  (IF S.headers.ce = None THEN "identity" ELSE S.headers.ce) # "identity"

\* line 145 with the method in lower case
isHeadLowerCase(m) == m = "head"

\* line 145
isHead(m) == m = "HEAD"

\* line 172 as addListeners(res, on, listeners)
compressListenersOnRes(S, m) ==
  LET S1 == [S EXCEPT !.stream = m,
                      !.streams = @ + 1,
                      !.resOn = addListeners(@, S.listeners),
                      !.resFlush = "stream"]
      S2 == [Mutate(S1, "Content-Encoding") EXCEPT !.headers.ce = m]
      S3 == IF S2.headers.cl = Undef THEN S2
            ELSE [Mutate(S2, "Content-Length") EXCEPT !.headers.cl = Undef]
  IN [S3 EXCEPT !.resOn = Append(@, <<"drain", Resume>>)]

\* lines 165-196 without the 'drain' listener of lines 194-196
compressNoResume(S, m) ==
  LET S1 == [S EXCEPT !.stream = m,
                      !.streams = @ + 1,
                      !.zOn = addListeners(@, S.listeners),
                      !.resFlush = "stream"]
      S2 == [Mutate(S1, "Content-Encoding") EXCEPT !.headers.ce = m]
  IN IF S2.headers.cl = Undef THEN S2
     ELSE [Mutate(S2, "Content-Length") EXCEPT !.headers.cl = Undef]

\* lines 165-196 without the removeHeader of line 181
compressKeepLength(S, m) ==
  LET S1 == [S EXCEPT !.stream = m,
                      !.streams = @ + 1,
                      !.zOn = addListeners(@, S.listeners),
                      !.resFlush = "stream"]
      S2 == [Mutate(S1, "Content-Encoding") EXCEPT !.headers.ce = m]
  IN [S2 EXCEPT !.resOn = Append(@, <<"drain", Resume>>)]

\* lines 165-196: create the zlib stream and wire it to the response
compress(S, m) ==
  LET S1 == [S EXCEPT !.stream = m,
                      !.streams = @ + 1,
                      !.zOn = addListeners(@, S.listeners),
                      !.resFlush = "stream"]
      S2 == [Mutate(S1, "Content-Encoding") EXCEPT !.headers.ce = m]
      S3 == IF S2.headers.cl = Undef THEN S2
            ELSE [Mutate(S2, "Content-Length") EXCEPT !.headers.cl = Undef]
  IN [S3 EXCEPT !.resOn = Append(@, <<"drain", Resume>>)]

\* lines 120-197: the callback given to onHeaders
onHeadersListener(S0) ==
  LET S == [S0 EXCEPT !.decisions = @ + 1]
  IN IF ~shouldCompress(S) THEN nocompress(S)
     ELSE LET V == vary(S)
          IN IF belowThreshold(V) THEN nocompress(V)
             ELSE IF alreadyEncoded(V) THEN nocompress(V)
             ELSE IF isHead(reqMethod) THEN nocompress(V)
             ELSE LET m == negotiate(reqAccept)
                      N == [V EXCEPT !.method = m]
                  IN IF m = NoEncoding \/ m = "identity"
                       THEN nocompress(N)
                       ELSE compress(N, m)

\* a hook that calls the listener on every writeHead
writeHeadEveryTime(S) ==
  [onHeadersListener([S EXCEPT !.fired = TRUE]) EXCEPT !.headerSent = TRUE]

\* a hook that misses the first writeHead and calls the listener on the next
writeHeadLate(S) ==
  LET S1 == IF S.headerSent /\ ~S.fired
              THEN onHeadersListener([S EXCEPT !.fired = TRUE])
              ELSE S
  IN [S1 EXCEPT !.headerSent = TRUE]

\* line 120, onHeaders(res, listener): res.writeHead calls the listener the
\* first time it runs, then commits the headers
writeHead(S) ==
  LET S1 == IF ~S.fired THEN onHeadersListener([S EXCEPT !.fired = TRUE])
            ELSE S
  IN [S1 EXCEPT !.headerSent = TRUE]

\* res._implicitHeader(): writeHead(statusCode)
implicitHeader(S) == writeHead(S)

\* the original res.write (line 54): commits the headers if that was not
\* done, passes the chunk on, returns ok
origWrite(S, chunk, ok) ==
  LET S1 == IF ~S.headerSent THEN implicitHeader(S) ELSE S
  IN [S1 EXCEPT !.wire = Append(@, [k |-> "write", c |-> Sent(chunk)]),
                !.needDrain = @ \/ ~ok]

\* the original res.end (line 56)
origEnd(S, chunk) ==
  LET S1 == IF ~S.headerSent THEN implicitHeader(S) ELSE S
  IN [S1 EXCEPT !.wire = Append(@, [k |-> "end", c |-> Sent(chunk)])]

\* stream.write(buffer): refused after stream.end()
streamWrite(S, buf, ok) ==
  IF S.zEnded THEN S
  ELSE [S EXCEPT !.zIn = Append(@, Sent(buf)), !.zNeedDrain = @ \/ ~ok]

\* stream.end([buffer])
streamEnd(S, buf) ==
  IF S.zEnded THEN S
  ELSE [S EXCEPT !.zIn = IF buf = NoChunk THEN @ ELSE Append(@, Sent(buf)),
                 !.zEnded = TRUE]

\* lines 69-77 with the target picked before the headers are committed
proxyWriteRouteFirst(S, chunk, ok) ==
  LET S1 == IF ~S.headerSent THEN implicitHeader(S) ELSE S
  IN IF S.stream # NoStream
       THEN streamWrite(S1, NewBuffer(chunk), ok)
       ELSE origWrite(S1, chunk, ok)

\* lines 69-77; ok is what the write of the target returns
proxyWrite(S, chunk, ok) ==
  LET S1 == IF ~S.headerSent THEN implicitHeader(S) ELSE S
  IN IF S1.stream # NoStream
       THEN streamWrite(S1, NewBuffer(chunk), ok)
       ELSE origWrite(S1, chunk, ok)

\* lines 89-96 with end.call(this) after stream.end
proxyEndDirect(S, chunk) ==
  LET S1 == IF ~S.headerSent
              THEN implicitHeader(
                     IF S.headers.cl = Undef \/ S.headers.cl = 0
                       THEN [S EXCEPT !.length = chunkLength(chunk)]
                       ELSE S)
              ELSE S
  IN IF S1.stream = NoStream THEN origEnd(S1, chunk)
     ELSE IF Truthy(chunk)
       THEN origEnd(streamEnd(S1, NewBuffer(chunk)), NoChunk)
     ELSE origEnd(streamEnd(S1, NoChunk), NoChunk)

\* lines 94-96 as stream.end() alone
proxyEndNoChunk(S, chunk) ==
  LET S1 == IF ~S.headerSent
              THEN implicitHeader(
                     IF S.headers.cl = Undef \/ S.headers.cl = 0
                       THEN [S EXCEPT !.length = chunkLength(chunk)]
                       ELSE S)
              ELSE S
  IN IF S1.stream = NoStream THEN origEnd(S1, chunk)
     ELSE streamEnd(S1, NoChunk)

\* lines 79-97
proxyEnd(S, chunk) ==
  LET S1 == IF ~S.headerSent
              THEN implicitHeader(
                     IF S.headers.cl = Undef \/ S.headers.cl = 0
                       THEN [S EXCEPT !.length = chunkLength(chunk)]
                       ELSE S)
              ELSE S
  IN IF S1.stream = NoStream THEN origEnd(S1, chunk)
     ELSE IF Truthy(chunk) THEN streamEnd(S1, NewBuffer(chunk))
     ELSE streamEnd(S1, NoChunk)

\* lines 99-112
proxyOn(S, type, id) ==
  IF S.listeners = Null \/ type # "drain"
    THEN [S EXCEPT !.resOn = Append(@, <<type, id>>)]
  ELSE IF S.stream # NoStream
    THEN [S EXCEPT !.zOn = Append(@, <<type, id>>)]
  ELSE [S EXCEPT !.listeners = Append(@, <<type, id>>),
                 !.buffered = Append(@, id)]

\* a close listener that also forgets the stream
onCloseDropsStream(S) ==
  [S EXCEPT !.resWrite = "noop", !.resEnd = "noop", !.stream = NoStream]

\* line 61 as res.write = noop
onCloseWriteOnly(S) == [S EXCEPT !.resWrite = "noop"]

\* lines 59-62: the listener of req 'close'
onClose(S) == [S EXCEPT !.resWrite = "noop", !.resEnd = "noop"]

\* emit 'drain' to the listeners ls, in order
RECURSIVE emitDrain(_, _)
emitDrain(S, ls) ==
  IF ls = <<>> THEN S
  ELSE LET l == Head(ls)
           S1 == IF l[1] # "drain" THEN S
                 ELSE IF l[2] = Resume THEN [S EXCEPT !.zPaused = FALSE]
                 ELSE [S EXCEPT !.calls[l[2]] = @ + 1]
       IN emitDrain(S1, Tail(ls))

\* lines 184-188 without stream.pause()
onDataNoPause(S, chunk, ok) == origWrite(S, chunk, ok)

\* lines 184-188: the listener of stream 'data'
onData(S, chunk, ok) ==
  LET S1 == origWrite(S, chunk, ok)
  IN IF ~ok THEN [S1 EXCEPT !.zPaused = TRUE] ELSE S1

\* lines 190-192: the listener of stream 'end'
onEnd(S) == origEnd(S, NoChunk)

(***************************************************************************)
(* Initial state: the middleware has run for the exchange (lines 51-66 and *)
(* 199), the application has set its response headers, nothing has been    *)
(* written.                                                                *)
(***************************************************************************)
Header(ct, cl, ce, v) == [ct |-> ct, cl |-> cl, ce |-> ce, vary |-> v]
Gzip == << [enc |-> "gzip", q |-> MaxQ] >>
Deflate == << [enc |-> "deflate", q |-> MaxQ] >>

DeflateGzip == << [enc |-> "deflate", q |-> MaxQ], [enc |-> "gzip", q |-> MaxQ] >>

\* the exchanges of the main specification, <<threshold, req.method,
\* Accept-Encoding, response headers>>: one that is compressed, one that
\* passes the filter and is not compressed and one that is filtered
Scenarios ==
  { <<0, "GET", Deflate,
      Header("text/html", MaxChunk, "identity", {"Origin"})>>,
    <<MaxThreshold, "HEAD", Gzip, Header("text/html", Undef, None, {})>>,
    <<MaxThreshold, "GET", Gzip, Header("image/png", Undef, None, {"Origin"})>> }

NoEnd == [seq |-> 0, chunk |-> "no"]

Fresh ==
  /\ appHeaders = headers
  /\ headerSent = FALSE
  /\ fired = FALSE
  /\ length = Undef
  /\ listeners = <<>>
  /\ stream = NoStream
  /\ resWrite = "proxy"
  /\ resEnd = "proxy"
  /\ resFlush = "noop"
  /\ resOn = <<>>
  /\ zOn = <<>>
  /\ zIn = <<>>
  /\ zOut = 0
  /\ zEnded = FALSE
  /\ zFinished = FALSE
  /\ zPaused = FALSE
  /\ zNeedDrain = FALSE
  /\ zFlushes = 0
  /\ wire = <<>>
  /\ needDrain = FALSE
  /\ calls = [i \in 1..MaxSubs |-> 0]
  /\ decisions = 0
  /\ method = Unset
  /\ muts = {}
  /\ mutAfterBody = FALSE
  /\ buffered = <<>>
  /\ tDrains = 0
  /\ zDrains = 0
  /\ streams = 0
  /\ bodyLen = 0
  /\ how = "none"
  /\ appEnd = NoEnd
  /\ ncalls = 0
  /\ nsubs = 0
  /\ closed = FALSE

Init ==
  /\ \E sc \in Scenarios :
       /\ option = Bytes(sc[1])
       /\ threshold \in thresholdOf(option)
       /\ reqMethod = sc[2]
       /\ reqAccept = sc[3]
       /\ headers = sc[4]
  /\ Fresh

\* every combination of threshold, method, Accept-Encoding, Content-Type,
\* Content-Length and Content-Encoding
Accepts == {<<>>, Gzip, Deflate, DeflateGzip}

InitDecide ==
  /\ option \in {Bytes(n) : n \in 0..MaxThreshold}
  /\ threshold \in thresholdOf(option)
  /\ reqMethod \in Methods
  /\ reqAccept \in Accepts
  /\ headers \in [ct : ContentTypes, cl : ContentLengths,
                   ce : ContentEncodings, vary : {{}}]
  /\ Fresh

config == <<option, threshold, reqMethod, reqAccept, appHeaders>>

\* the chunks the application passes: a string of 0..MaxChunk bytes, an
\* empty Buffer or a Buffer of MaxChunk bytes
Chunks(seq) ==
  {Chunk("string", n, seq) : n \in 0..MaxChunk}
    \cup {Chunk("buffer", n, seq) : n \in {0, MaxChunk}}

\* body bytes submitted so far, counted up to MaxThreshold + 1 where the
\* specification measures the body
AddLen(measured, chunk) ==
  IF ~measured THEN bodyLen
  ELSE IF bodyLen + chunk.n > MaxThreshold THEN MaxThreshold + 1
  ELSE bodyLen + chunk.n

(***************************************************************************)
(* Operations.                                                             *)
(***************************************************************************)
\* the application commits the headers itself: res.writeHead(status)
WriteHead ==
  /\ Becomes(writeHead(Cur))
  /\ how' = IF ~headerSent THEN "other" ELSE how
  /\ UNCHANGED <<config, bodyLen, appEnd, ncalls, nsubs, closed>>

\* res.write(chunk, encoding); oks are the values the write of the stream
\* or of the response may return
Write(measured, oks) ==
  /\ ncalls < MaxCalls
  /\ \E chunk \in Chunks(ncalls + 1), ok \in oks :
       /\ IF resWrite = "noop" THEN Becomes(Cur)
          ELSE Becomes(proxyWrite(Cur, chunk, ok))
       /\ bodyLen' = AddLen(measured, chunk)
  /\ how' = IF resWrite = "proxy" /\ ~headerSent THEN "other" ELSE how
  /\ ncalls' = ncalls + 1
  /\ UNCHANGED <<config, appEnd, nsubs, closed>>

\* res.end(chunk, encoding), res.end()
End(measured) ==
  /\ ncalls < MaxCalls
  /\ \E chunk \in {NoChunk} \cup Chunks(ncalls + 1) :
       /\ IF resEnd = "noop" THEN Becomes(Cur)
          ELSE Becomes(proxyEnd(Cur, chunk))
       /\ bodyLen' = AddLen(measured, chunk)
       /\ how' = IF resEnd = "proxy" /\ ~headerSent
                   THEN (IF Truthy(chunk) THEN "end" ELSE "emptyend")
                   ELSE how
       /\ appEnd' = IF resEnd = "proxy" /\ appEnd = NoEnd
                      THEN [seq |-> ncalls + 1,
                            chunk |-> IF chunk = NoChunk THEN "none"
                                      ELSE IF Truthy(chunk) THEN "truthy"
                                      ELSE "empty"]
                      ELSE appEnd
  /\ ncalls' = ncalls + 1
  /\ UNCHANGED <<config, nsubs, closed>>

\* res.on(type, listener)
On ==
  /\ nsubs < MaxSubs
  /\ \E type \in {"drain", "finish"} :
       Becomes(proxyOn(Cur, type, nsubs + 1))
  /\ nsubs' = nsubs + 1
  /\ UNCHANGED <<config, bodyLen, how, appEnd, ncalls, closed>>

\* res.flush(): noop (line 65) or stream.flush() (lines 175-177)
Flush ==
  /\ zFlushes < MaxFlush
  /\ Becomes(IF resFlush = "stream" THEN [Cur EXCEPT !.zFlushes = @ + 1]
             ELSE Cur)
  /\ UNCHANGED <<config, bodyLen, how, appEnd, ncalls, nsubs, closed>>

\* req emits 'close'
Close ==
  /\ ~closed
  /\ closed' = TRUE
  /\ Becomes(onClose(Cur))
  /\ UNCHANGED <<config, bodyLen, how, appEnd, ncalls, nsubs>>

\* the zlib stream emits 'data': one chunk for each chunk it was given and
\* a last one after end()
StreamData ==
  /\ stream # NoStream
  /\ ~zPaused
  /\ ~zFinished
  /\ zOut < Len(zIn) + (IF zEnded THEN 1 ELSE 0)
  /\ \E ok \in BOOLEAN :
       Becomes(onData([Cur EXCEPT !.zOut = @ + 1],
                      Chunk(stream, 0, zOut + 1), ok))
  /\ UNCHANGED <<config, bodyLen, how, appEnd, ncalls, nsubs, closed>>

\* the zlib stream emits 'end' after its last 'data'
StreamEnd ==
  /\ stream # NoStream
  /\ ~zPaused
  /\ ~zFinished
  /\ zEnded
  /\ zOut = Len(zIn) + 1
  /\ Becomes(onEnd([Cur EXCEPT !.zFinished = TRUE]))
  /\ UNCHANGED <<config, bodyLen, how, appEnd, ncalls, nsubs, closed>>

\* the response emits 'drain' after a write returned false
Drain ==
  /\ needDrain
  /\ Becomes(emitDrain([Cur EXCEPT !.needDrain = FALSE,
                                   !.tDrains = @ + (IF fired THEN 1 ELSE 0)],
                       resOn))
  /\ UNCHANGED <<config, bodyLen, how, appEnd, ncalls, nsubs, closed>>

\* the zlib stream emits 'drain' after its write returned false
StreamDrain ==
  /\ zNeedDrain
  /\ Becomes(emitDrain([Cur EXCEPT !.zNeedDrain = FALSE, !.zDrains = @ + 1],
                       zOn))
  /\ UNCHANGED <<config, bodyLen, how, appEnd, ncalls, nsubs, closed>>

Next ==
  \/ WriteHead
  \/ Write(FALSE, BOOLEAN)
  \/ End(FALSE)
  \/ On
  \/ Flush
  \/ Close
  \/ StreamData
  \/ StreamEnd
  \/ Drain
  \/ StreamDrain

Spec == Init /\ [][Next]_vars

\* the decision and the delivery of the body alone, over every combination
\* of threshold, method and headers, where every write is accepted
NextDecide ==
  \/ WriteHead
  \/ Write(TRUE, {TRUE})
  \/ End(TRUE)

SpecDecide == InitDecide /\ [][NextDecide]_vars

\* the same over every Accept-Encoding header that lists each of gzip,
\* deflate and identity at most once, for a response that is compressible
Listed(acc) == {acc[i].enc : i \in 1..Len(acc)}

AllAccepts ==
  {acc \in UNION {[1..n -> [enc : Encodings, q : 0..MaxQ]] : n \in 0..3} :
     Cardinality(Listed(acc)) = Len(acc)}

InitNegotiate ==
  /\ option = Bytes(0)
  /\ threshold \in thresholdOf(option)
  /\ reqMethod = "GET"
  /\ reqAccept \in AllAccepts
  /\ headers = Header("text/html", Undef, None, {})
  /\ Fresh

SpecNegotiate == InitNegotiate /\ [][NextDecide]_vars

\* the same for every threshold option, for a response that is compressible
\* and a request that accepts gzip
Options ==
  {NoOption, NotASize}
    \cup {Bytes(n) : n \in -1..MaxThreshold}
    \cup {Size(n, unit) : n \in -1..1, unit \in {"b", "kb"}}

InitConstruct ==
  /\ option \in Options
  /\ threshold \in thresholdOf(option)
  /\ reqMethod = "GET"
  /\ reqAccept = Gzip
  /\ headers \in {Header("text/html", cl, None, {}) : cl \in ContentLengths}
  /\ Fresh

SpecConstruct == InitConstruct /\ [][NextDecide]_vars

\* the relay of a compressed exchange alone: write, end and close on one
\* side, the events of the stream and of the response on the other; the
\* stream emits its pending 'data' and 'end' when it is not paused and the
\* response emits the 'drain' it owes
InitRelay ==
  /\ option = Bytes(0)
  /\ threshold \in thresholdOf(option)
  /\ reqMethod = "GET"
  /\ reqAccept = Gzip
  /\ headers = Header("text/html", Undef, None, {})
  /\ Fresh

NextRelay ==
  \/ Write(FALSE, BOOLEAN)
  \/ End(FALSE)
  \/ Close
  \/ StreamData
  \/ StreamEnd
  \/ Drain
  \/ StreamDrain

SpecRelay ==
  /\ InitRelay
  /\ [][NextRelay]_vars
  /\ WF_vars(StreamData)
  /\ WF_vars(StreamEnd)
  /\ WF_vars(Drain)

\* the same for every Vary header the application may have set, over every
\* way out of the callback
VaryValues ==
  {{}, {"Origin"}, {"Accept-Encoding"}, {"Origin", "Accept-Encoding"}, {"*"}}

InitVary ==
  /\ option \in {Bytes(0), Bytes(MaxThreshold)}
  /\ threshold \in thresholdOf(option)
  /\ reqMethod \in Methods
  /\ reqAccept \in {<<>>, Gzip}
  /\ headers \in [ct : ContentTypes, cl : {Undef, 0},
                   ce : ContentEncodings, vary : VaryValues]
  /\ Fresh

SpecVary == InitVary /\ [][NextDecide]_vars

(***************************************************************************)
(* Properties.                                                             *)
(***************************************************************************)
\* the application has called res.end on the open response
Delivered == appEnd # NoEnd

\* C1: the onHeaders callback runs at most once in an exchange, whatever
\* the interleaving of write, end, on, flush and writeHead calls
C1_DecisionAtMostOnce == decisions <= 1

\* the callback has run, and write/end calls and a second way of committing
\* the headers came after it
C1_Witness ==
  /\ decisions = 1
  /\ ncalls >= 2
  /\ Len(wire) + Len(zIn) >= 2
  /\ Delivered

\* C2: while the callback has not run nothing was passed to the original
\* write/end or to a stream and no header was changed, and no header is
\* changed once the original write/end was called
C2_NothingBeforeDecision ==
  /\ decisions = 0 =>
       /\ wire = <<>>
       /\ zIn = <<>>
       /\ stream = NoStream
       /\ muts = {}
       /\ headers = appHeaders
  /\ ~mutAfterBody

\* the callback changed headers and the body has reached the transport
C2_Witness ==
  /\ decisions = 1
  /\ {"Vary", "Content-Encoding", "Content-Length"} \subseteq muts
  /\ \E i \in 1..Len(wire) : wire[i].k = "write"

\* the exchange passes every rule of the callback other than the threshold
OtherwiseEligible ==
  /\ appHeaders.ct = "text/html"
  /\ appHeaders.ce \in {None, "identity"}
  /\ reqMethod = "GET"
  /\ reqAccept \in {Gzip, Deflate, DeflateGzip}

\* the application has delivered the whole body: res.end was its last call,
\* and Content-Length, when it set one, is the length of the body
BodyDelivered ==
  /\ Delivered
  /\ appEnd.seq = ncalls
  /\ appHeaders.cl \in {Undef, bodyLen}

\* C3 as stated, for a body that is not empty: however the body is
\* delivered, threshold - 1 bytes are not compressed and threshold bytes are
C3_AnyDelivery ==
  OtherwiseEligible /\ BodyDelivered =>
    /\ bodyLen = threshold - 1 /\ bodyLen > 0 =>
         stream = NoStream /\ headers.ce = appHeaders.ce
    /\ bodyLen = threshold => stream # NoStream

\* C3 amended: a body of threshold bytes is compressed; a body of
\* threshold - 1 bytes is not compressed when its length is known to the
\* callback (Content-Length is set, or the headers are committed by res.end
\* with a chunk that is not falsy), and is compressed when it is streamed
\* (no Content-Length, and the headers are committed by write or by
\* writeHead)
C3_ThresholdBoundary ==
  OtherwiseEligible /\ BodyDelivered =>
    /\ bodyLen = threshold => stream # NoStream /\ headers.ce = stream
    /\ bodyLen = threshold - 1 /\ (appHeaders.cl = bodyLen \/ how = "end") =>
         stream = NoStream /\ headers.ce = appHeaders.ce
    /\ bodyLen = threshold - 1 /\ appHeaders.cl = Undef /\ how = "other" =>
         stream # NoStream /\ headers.ce = stream

\* a body of threshold - 1 > 0 bytes given whole to res.end is passed
\* through
C3_Witness ==
  /\ OtherwiseEligible
  /\ BodyDelivered
  /\ threshold = MaxThreshold
  /\ bodyLen = threshold - 1
  /\ appHeaders.cl = Undef
  /\ how = "end"
  /\ stream = NoStream
  /\ Len(wire) = 1

\* the calls 1..n in order
Upto(n) == [i \in 1..n |-> i]

\* the chunks the target of the exchange was given, by the call that
\* submitted them
TargetSeqs ==
  IF stream # NoStream THEN [i \in 1..Len(zIn) |-> zIn[i].seq]
  ELSE LET Carries(e) == e.c.kind # "none"
           w == SelectSeq(wire, Carries)
       IN [i \in 1..Len(w) |-> w[i].c.seq]

\* the res.end call carried no bytes to forward: no chunk, or an empty
\* string on the way to the stream
EndCarriesNothing ==
  \/ appEnd.chunk = "none"
  \/ appEnd.chunk = "empty" /\ stream # NoStream

\* C4: on an open connection the chunks of the write calls and of the final
\* end reach the target (the stream when there is one, else the original
\* write/end) each once and in the order of the calls; with a stream, the
\* original write gets the chunks of the stream in the order of its 'data'
\* events, and the original end comes after them
C4_OrderPreserved ==
  /\ ~closed /\ decisions = 1 /\ (Delivered => appEnd.seq = ncalls) =>
       TargetSeqs = Upto(IF Delivered /\ EndCarriesNothing
                           THEN ncalls - 1 ELSE ncalls)
  /\ stream # NoStream =>
       /\ \A i \in 1..Len(zIn) : zIn[i].kind = "buffer"
       /\ Len(wire) = zOut + (IF zFinished THEN 1 ELSE 0)
       /\ \A i \in 1..zOut : wire[i] = [k |-> "write",
                                        c |-> [kind |-> stream, seq |-> i]]
       /\ zFinished => wire[zOut + 1].k = "end"

\* two writes and an end with a chunk went through the stream, and the
\* stream has passed its output on and ended the response
C4_Witness ==
  /\ ~closed
  /\ stream # NoStream
  /\ appEnd = [seq |-> MaxCalls, chunk |-> "truthy"]
  /\ Len(zIn) = MaxCalls
  /\ zFinished
  /\ Len(wire) = MaxCalls + 2

\* the subscriptions ids as they are held in listeners
Pairs(ids) == [i \in 1..Len(ids) |-> <<"drain", ids[i]>>]

\* what is attached to a target of the buffered subscriptions
BufferedOn(target) ==
  LET IsBuffered(l) == \E i \in 1..Len(buffered) : l[2] = buffered[i]
  IN SelectSeq(target, IsBuffered)

\* C5: the 'drain' subscriptions made before the callback ran are held back
\* until it runs, and from then on are attached, each once and in the order
\* they were made, to the stream when one was created and to the response
\* when not, and to nothing else
C5_ListenersReplayedOnce ==
  /\ decisions = 0 =>
       /\ listeners = Pairs(buffered)
       /\ BufferedOn(resOn) = <<>>
       /\ BufferedOn(zOn) = <<>>
  /\ decisions >= 1 /\ stream # NoStream =>
       /\ BufferedOn(zOn) = Pairs(buffered)
       /\ BufferedOn(resOn) = <<>>
  /\ decisions >= 1 /\ stream = NoStream =>
       /\ BufferedOn(resOn) = Pairs(buffered)
       /\ BufferedOn(zOn) = <<>>

\* MaxSubs subscriptions were buffered and are attached to the stream
C5_Witness ==
  /\ decisions = 1
  /\ stream # NoStream
  /\ Len(buffered) = MaxSubs
  /\ MaxSubs >= 2
  /\ zOn = Pairs(buffered)

\* C6: a 'drain' listener subscribed before the callback ran has been called
\* once for each 'drain' event that the target of the exchange has emitted
\* since (the stream when one was created, the response when not)
C6_DrainOncePerRelief ==
  \A i \in 1..Len(buffered) :
    calls[buffered[i]] =
      IF decisions = 0 THEN 0
      ELSE IF stream # NoStream THEN zDrains
      ELSE tDrains

\* the stream has emitted 'drain' twice with a buffered listener attached
C6_Witness ==
  /\ buffered # <<>>
  /\ stream # NoStream
  /\ zDrains >= 2
  /\ calls[buffered[1]] = zDrains

\* the state of the response, the closure, the stream and the transport
exchange ==
  <<headers, headerSent, fired, length, listeners, stream, resWrite, resEnd,
    resFlush, resOn, zOn, zIn, zOut, zEnded, zFinished, zPaused, zNeedDrain,
    zFlushes, wire, needDrain, calls, decisions, method, muts>>

\* C7: once req has emitted 'close', a write or end call changes nothing:
\* nothing is passed to the original write/end or to the stream, the
\* callback does not run and no header changes
C7_PostCloseNoop ==
  [][closed /\ ncalls' = ncalls + 1 => UNCHANGED exchange]_vars

\* MaxCalls write/end calls were made after 'close', before any decision
C7_Witness ==
  /\ closed
  /\ ncalls = MaxCalls
  /\ decisions = 0
  /\ wire = <<>>

\* the weight the requester gives an encoding: the q of its entry; an
\* encoding that is not listed has weight 0, but identity, which then has
\* the lowest weight listed
Weight(enc) ==
  IF \E i \in 1..Len(reqAccept) : reqAccept[i].enc = enc
    THEN LET i == CHOOSE j \in 1..Len(reqAccept) : reqAccept[j].enc = enc
         IN reqAccept[i].q
  ELSE IF enc = "identity" THEN MinQ(reqAccept, MaxQ)
  ELSE 0

\* the place of an encoding in the header, after the last when not listed
Place(enc) ==
  IF \E i \in 1..Len(reqAccept) : reqAccept[i].enc = enc
    THEN CHOOSE j \in 1..Len(reqAccept) : reqAccept[j].enc = enc
    ELSE Len(reqAccept) + 1

\* C8 as stated: when gzip is acceptable the method is never deflate, and it
\* is gzip whenever the negotiation over gzip, deflate, identity selects
\* deflate or gzip and deflate have the same weight
C8_AlwaysGzip ==
  decisions = 1 /\ Weight("gzip") > 0 =>
    /\ method # "deflate"
    /\ \/ acceptEncoding(reqAccept, <<"gzip", "deflate", "identity">>)
            = "deflate"
       \/ Weight("gzip") = Weight("deflate")
       => method = "gzip"

\* C8 amended: when gzip is acceptable the method is never deflate; it is
\* gzip when gzip has a higher weight than identity, or the same weight
\* with identity not listed before it, and it is identity (no compression)
\* when identity has the higher weight
C8_GzipPreferred ==
  decisions = 1 /\ Weight("gzip") > 0 =>
    /\ method \in {"gzip", "identity"}
    /\ stream = (IF method = "gzip" THEN "gzip" ELSE NoStream)
    /\ Weight("gzip") > Weight("identity") => method = "gzip"
    /\ Weight("gzip") = Weight("identity")
         /\ Place("gzip") < Place("identity") => method = "gzip"
    /\ Weight("identity") > Weight("gzip") => method = "identity"

\* the negotiation over gzip, deflate, identity selects deflate, and the
\* response is compressed with gzip
C8_Witness ==
  /\ decisions = 1
  /\ Weight("gzip") > 0
  /\ acceptEncoding(reqAccept, <<"gzip", "deflate", "identity">>) = "deflate"
  /\ method = "gzip"
  /\ stream = "gzip"

\* C9: when the response carries a Content-Encoding other than identity as
\* the callback runs, no stream is created, Content-Encoding and
\* Content-Length stay as the application set them and every write/end call
\* goes to the original write/end
C9_NoDoubleEncoding ==
  decisions = 1 /\ appHeaders.ce \notin {None, "identity"} =>
    /\ stream = NoStream
    /\ zIn = <<>>
    /\ headers.ce = appHeaders.ce
    /\ headers.cl = appHeaders.cl
    /\ muts \cap {"Content-Encoding", "Content-Length"} = {}
    /\ Len(wire) = ncalls
    /\ \A i \in 1..Len(wire) : wire[i].c.seq \in {i, 0}

\* a response with Content-Encoding: br that passes every other rule of the
\* callback has been written to the original write/end
C9_Witness ==
  /\ decisions = 1
  /\ appHeaders = Header("text/html", Undef, "br", {})
  /\ reqMethod = "GET"
  /\ reqAccept = Gzip
  /\ how = "other"
  /\ "Vary" \in muts
  /\ Len(wire) = MaxCalls
  /\ stream = NoStream

\* C10: for a HEAD request no stream is created and the callback sets no
\* Content-Encoding
C10_HeadNotCompressed ==
  reqMethod = "HEAD" =>
    /\ stream = NoStream
    /\ zIn = <<>>
    /\ headers.ce = appHeaders.ce
    /\ "Content-Encoding" \notin muts

\* the callback has run for a HEAD request that passes every other rule
C10_Witness ==
  /\ reqMethod = "HEAD"
  /\ decisions = 1
  /\ appHeaders = Header("text/html", Undef, None, {})
  /\ reqAccept = Gzip
  /\ threshold = 0
  /\ "Vary" \in muts
  /\ stream = NoStream
  /\ wire # <<>>

\* the option is below zero or is not a size
BadOption ==
  \/ option.kind = "malformed"
  \/ option.kind \in {"number", "size"} /\ option.n < 0

\* C11: no exchange is processed by a middleware constructed with a
\* threshold option that is below zero or is not a size (the construction
\* fails), and with no option the threshold is 1024
C11_BadThresholdRejected ==
  /\ BadOption => decisions = 0 /\ wire = <<>> /\ zIn = <<>>
  /\ option = NoOption => threshold = DefaultThreshold

\* C12: once the callback has run, a stream exists exactly when the
\* negotiated method is gzip or deflate; with a stream Content-Encoding was
\* set to that method and there is no Content-Length; with no stream
\* (filtered, below the threshold, already encoded, HEAD, not acceptable)
\* Content-Encoding and Content-Length are as the application set them
C12_HeadersFollowOutcome ==
  decisions = 1 =>
    /\ stream # NoStream <=> method \in {"gzip", "deflate"}
    /\ stream # NoStream =>
         /\ stream = method
         /\ headers.ce = method
         /\ "Content-Encoding" \in muts
         /\ headers.cl = Undef
         /\ "Content-Length" \in muts <=> appHeaders.cl # Undef
    /\ stream = NoStream =>
         /\ headers.ce = appHeaders.ce
         /\ headers.cl = appHeaders.cl
         /\ muts \cap {"Content-Encoding", "Content-Length"} = {}

\* a response with a Content-Length was compressed with deflate and its
\* body was given to the stream
C12_Witness ==
  /\ decisions = 1
  /\ stream = "deflate"
  /\ appHeaders.cl = MaxChunk
  /\ appHeaders.ce = "identity"
  /\ headers.cl = Undef
  /\ Len(zIn) = MaxCalls
  /\ Delivered

\* the filter accepts the exchange (lines 122, 240-249)
Accepted == appHeaders.ct # None /\ compressible(appHeaders.ct)

\* C13 as stated: when the filter accepts, Vary lists Accept-Encoding after
\* the callback whatever the outcome, with every entry it had before; when
\* the filter rejects, Vary is unchanged
C13_VaryAlways ==
  decisions = 1 =>
    /\ Accepted => /\ "Accept-Encoding" \in headers.vary
                   /\ appHeaders.vary \subseteq headers.vary
    /\ ~Accepted => headers.vary = appHeaders.vary /\ "Vary" \notin muts

\* C13 amended: when the filter accepts, after the callback Vary lists
\* Accept-Encoding next to every entry it had before, whatever the outcome,
\* unless the application set Vary to the wildcard *, which is left as it
\* is; when the filter rejects, Vary is unchanged
C13_VaryAppended ==
  decisions = 1 =>
    /\ Accepted /\ "*" \notin appHeaders.vary =>
         headers.vary = appHeaders.vary \cup {"Accept-Encoding"}
    /\ Accepted /\ "*" \in appHeaders.vary =>
         headers.vary = appHeaders.vary /\ "Vary" \notin muts
    /\ ~Accepted => headers.vary = appHeaders.vary /\ "Vary" \notin muts

\* Accept-Encoding was appended to Vary: Origin for a HEAD request, which
\* is not compressed
C13_Witness ==
  /\ decisions = 1
  /\ Accepted
  /\ reqMethod = "HEAD"
  /\ stream = NoStream
  /\ appHeaders.vary = {"Origin"}
  /\ headers.vary = {"Origin", "Accept-Encoding"}
  /\ wire # <<>>

\* C14: the method and the stream are set by the callback and by nothing
\* else: they change in no step but the one in which the callback runs,
\* at most one stream is created, and an exchange that has none after the
\* callback never gets one
C14_OutcomeFixed ==
  /\ [](streams <= 1)
  /\ [](streams = (IF stream = NoStream THEN 0 ELSE 1))
  /\ [][decisions' = decisions => method' = method /\ stream' = stream]_vars
  /\ [][decisions >= 1 => method' = method /\ stream' = stream]_vars

\* a stream was created, and write, end, on, flush, drain and close events
\* came after the callback
C14_Witness ==
  /\ decisions = 1
  /\ stream # NoStream
  /\ closed
  /\ zFinished
  /\ zFlushes = MaxFlush
  /\ tDrains >= 1
  /\ zDrains >= 1
  /\ Len(zOn) >= 1
  /\ ncalls = MaxCalls

\* C15: with a stream, res.end does not call the original end: it ends the
\* stream, and the original end is called once, with no chunk, when the
\* stream has emitted 'end', after the original write was given every chunk
\* the stream emitted
C15_EndThroughCodec ==
  stream # NoStream =>
    /\ Delivered => zEnded
    /\ \A i \in 1..Len(wire) :
         wire[i].k = "end" =>
           /\ zEnded /\ zFinished
           /\ i = Len(wire)
           /\ zOut = Len(zIn) + 1
           /\ i = zOut + 1
           /\ wire[i].c = Sent(NoChunk)
           /\ \A j \in 1..(i - 1) :
                wire[j].k = "write" /\ wire[j].c.kind = stream

\* res.end() with no chunk ended the stream after a write, and the relay
\* has written the output of the stream and ended the response
C15_Witness ==
  /\ stream # NoStream
  /\ appEnd = [seq |-> MaxCalls, chunk |-> "none"]
  /\ zFinished
  /\ zOut = MaxCalls
  /\ wire[Len(wire)].k = "end"
  /\ Len(wire) = MaxCalls + 1

\* C16: with a stream, the stream is paused exactly while a write of its
\* output that returned false has not been followed by a 'drain' of the
\* response; nothing is written to the original write in between, and every
\* 'drain' of the response leaves the stream resumed
C16_BackpressureRelay ==
  /\ [](stream # NoStream => (zPaused <=> needDrain))
  /\ [][stream # NoStream /\ needDrain /\ needDrain' => wire' = wire]_vars
  /\ [][stream # NoStream /\ tDrains' = tDrains + 1 => ~zPaused']_vars

\* the stream was paused, resumed by a 'drain' of the response, and paused
\* again by the next write that returned false
C16_Witness ==
  /\ stream # NoStream
  /\ tDrains >= 1
  /\ zPaused
  /\ needDrain
  /\ zOut >= 2
  /\ Len(wire) = zOut

\* places in wire of chunks of the application, and of chunks of a stream
RawOnWire == {i \in 1..Len(wire) : wire[i].c.kind \in {"string", "buffer"}}
CodedOnWire == {i \in 1..Len(wire) : wire[i].c.kind \in {"gzip", "deflate"}}

\* C19: the original write/end get chunks of the application only when no
\* stream exists and nothing was given to one, and chunks of a stream only
\* when one exists, never both
C19_NoMixture ==
  /\ RawOnWire = {} \/ CodedOnWire = {}
  /\ RawOnWire # {} => stream = NoStream /\ zIn = <<>>
  /\ CodedOnWire # {} =>
       /\ stream # NoStream
       /\ \A i \in CodedOnWire : wire[i].c.kind = stream
  /\ stream = NoStream => zIn = <<>>

\* the first write committed the headers and went to the stream with the
\* next, and the output of the stream is on the wire
C19_Witness ==
  /\ how = "other"
  /\ ncalls = MaxCalls
  /\ Len(zIn) = MaxCalls
  /\ ~zEnded
  /\ Cardinality(CodedOnWire) = MaxCalls
  /\ RawOnWire = {}

\* C17: when res.end with no chunk commits the headers of a response with
\* no Content-Length and the threshold is above 0, the response is below
\* the threshold: no stream is created and Content-Encoding is not set
C17_EmptyEndNotCompressed ==
  [][/\ ~headerSent /\ headerSent'
     /\ appEnd = NoEnd /\ appEnd' # NoEnd /\ appEnd'.chunk = "none"
     /\ headers.cl = Undef
     /\ threshold > 0
     => stream' = NoStream /\ headers'.ce = appHeaders.ce]_vars

\* C18: a stream exists only when the callback negotiated gzip or deflate,
\* and once req has emitted 'close' the stream emits nothing more and the
\* original write/end are not called again
C18_NoRelayAfterClose ==
  /\ [](stream # NoStream => stream = method /\ method \in {"gzip", "deflate"})
  /\ [][closed => /\ wire' = wire
                  /\ zOut' = zOut
                  /\ zFinished' = zFinished]_vars

\* calls of the original end
EndsOnWire == {i \in 1..Len(wire) : wire[i].k = "end"}

\* C20: once res.end has ended the stream of a compressed exchange, the
\* stream emits all its output and 'end', resumed by the 'drain' of the
\* response after every write that returned false: the original end is
\* called, once, and the stream does not stay paused
C20_RelayCompletes ==
  /\ [](Cardinality(EndsOnWire) <= 1)
  /\ (stream # NoStream /\ zEnded) ~>
       (zFinished /\ Cardinality(EndsOnWire) = 1 /\ zOut = Len(zIn) + 1)
  /\ (stream # NoStream /\ zEnded) ~> [](~zPaused)

\* the connection stayed open, the stream was paused and resumed on its
\* way, and the relay has ended the response
C20_Witness ==
  /\ ~closed
  /\ stream # NoStream
  /\ zFinished
  /\ tDrains >= 2
  /\ ~zPaused
  /\ Cardinality(EndsOnWire) = 1
  /\ Len(wire) = MaxCalls + 2

====
